---- MODULE Spec2Model ----
(***************************************************************************)
(* Chunk baking and publication of wgpu-mc (rust/wgpu-mc/src/mc/chunk).    *)
(*                                                                         *)
(* Chunk::new, Chunk::bake and ChunkManager::bake_meshes are translated    *)
(* from mc/chunk/mod.rs.  Arc / ArcSwap cells are modelled as heaps of     *)
(* immutable objects addressed by an id, with a strong count per object.   *)
(* The mesh layer baker (BakedChunkLayer), the callers that load and       *)
(* unload chunks and the draw path that reads the published buffers live   *)
(* outside mc/chunk/mod.rs and are modelled from the specification.        *)
(***************************************************************************)
EXTENDS Integers, Sequences, FiniteSets, TLC

(***************************************************************************)
(* Bounds of the model.                                                    *)
(***************************************************************************)
\* number of bake_meshes calls made in one behaviour
MaxPassCalls == 2
\* number of Chunk objects created in one behaviour
MaxChunks == 2
\* CHUNK_WIDTH and CHUNK_HEIGHT of mod.rs, scaled down from 16 and 256
CHUNK_WIDTH == 2
CHUNK_HEIGHT == 2
\* number of references to published mappings that readers hold at one time
MaxReaderRefs == 2
\* number of block variants, and of non-air blocks in an array, when the Chunk
\* functions are called directly
MaxKey == 3
MaxBlocks == 2
\* block coordinates x and z range over -MaxCoord..MaxCoord
MaxCoord == 2
\* width of usize, scaled down from 64
UsizeBits == 16

\* threads that call bake_meshes (they are interchangeable: a call runs on the
\* first free one) and the chunk positions in use
Threads == <<"t1", "t2">>
Passes == {Threads[i] : i \in 1..Len(Threads)}
Positions == {<<0, 0>>, <<1, 0>>}

(***************************************************************************)
(* Constants of mc/chunk/mod.rs.                                           *)
(***************************************************************************)
CHUNK_AREA == CHUNK_WIDTH * CHUNK_WIDTH
CHUNK_VOLUME == CHUNK_AREA * CHUNK_HEIGHT
CHUNK_SECTION_HEIGHT == 1
CHUNK_SECTIONS_PER == CHUNK_HEIGHT \div CHUNK_SECTION_HEIGHT
SECTION_VOLUME == CHUNK_AREA * CHUNK_SECTION_HEIGHT

(***************************************************************************)
(* Option<T>: None is the empty sequence, Some(x) the one-element one.     *)
(***************************************************************************)
None == <<>>
Some(x) == <<x>>
IsSome(o) == Len(o) = 1
Unwrap(o) == o[1]

\* BlockState: only its packed_key matters here
BlockState(key) == [packed_key |-> key]
Air == BlockState(None)

\* registry names looked up by Chunk::bake
GrassName == "minecraft:blockstates/grass.json#"
GlassName == "minecraft:blockstates/glass.json#"

\* block_manager.variant_indices: a map from names to indices
RegistryEmpty == [n \in {} |-> 0]
RegistryPopulated == (GrassName :> 1) @@ (GlassName :> 2)
Registries == {RegistryEmpty, RegistryPopulated}

\* HashMap::get
MapGet(m, k) == IF k \in DOMAIN m THEN Some(m[k]) ELSE None

\* HashMap::insert
MapInsert(m, k, v) == [x \in (DOMAIN m) \cup {k} |-> IF x = k THEN v ELSE m[x]]

\* the flat block array a caller hands to Chunk::new: a grass block, a glass
\* block and a block of another variant, air elsewhere
Mixed ==
  [i \in 1..CHUNK_VOLUME |->
     IF i = 1 THEN BlockState(Some(1))
     ELSE IF i = 2 THEN BlockState(Some(2))
     ELSE IF i = CHUNK_VOLUME THEN BlockState(Some(3))
     ELSE Air]
BlockArrays == {Mixed}

(***************************************************************************)
(* Chunk::new: split the flat array into sections.                         *)
(***************************************************************************)
\* a variant of ChunkSection: the sections start CHUNK_SECTION_HEIGHT blocks
\* apart instead of SECTION_VOLUME blocks apart
ChunkSectionOverlapping(blocks, section) ==
  LET start_index == section * CHUNK_SECTION_HEIGHT
      end_index == start_index + SECTION_VOLUME
  IN [empty |-> ~(\E i \in 1..Len(blocks) : IsSome(blocks[i].packed_key)),
      blocks |-> [k \in 1..(end_index - start_index) |-> blocks[start_index + k]],
      offset_y |-> section * CHUNK_SECTION_HEIGHT]

\* one section of Chunk::new
ChunkSection(blocks, section) ==
  LET start_index == section * SECTION_VOLUME
      end_index == (section + 1) * SECTION_VOLUME
  IN [empty |-> ~(\E i \in 1..Len(blocks) : IsSome(blocks[i].packed_key)),
      blocks |-> [k \in 1..(end_index - start_index) |-> blocks[start_index + k]],
      offset_y |-> section * CHUNK_SECTION_HEIGHT]

\* the content of the baked slot of a new chunk: Arc::new(None); a variant
\* that starts from an empty bundle instead
InitialBakedEmptyBundle ==
  Some([grass |-> [verts |-> <<>>, call |-> <<>>],
        glass |-> [verts |-> <<>>, call |-> <<>>],
        terrain |-> [verts |-> <<>>, call |-> <<>>]])

InitialBaked == None

\* `cell` is the Arc that Arc::new(None) allocates for the baked slot
Chunk_new(pos, blocks, cell) ==
  [pos |-> pos,
   sections |-> [s \in 1..CHUNK_SECTIONS_PER |-> ChunkSection(blocks, s - 1)],
   baked |-> cell]

(***************************************************************************)
(* Chunk::blockstate_at_pos.                                               *)
(***************************************************************************)
UsizeModulus == 2 ^ UsizeBits

\* the % of Rust on signed integers: the remainder takes the sign of the dividend
Rem(a, n) == IF a >= 0 THEN a % n ELSE 0 - ((0 - a) % n)

\* `as usize`: the value modulo the width of usize
AsUsize(v) == v % UsizeModulus

\* the two ways a call can end
Panicked == [panic |-> TRUE]
Returned(v) == [panic |-> FALSE, value |-> v]

\* the outcomes a build can produce for blockstate_at_pos(pos), pos = (x, y, z).
\* The literal 16 of the source is CHUNK_WIDTH.  When (z * CHUNK_WIDTH) + x
\* overflows usize, a build with overflow checks panics and a build without
\* them wraps; indexing out of bounds panics.
blockstate_at_pos(ch, pos) ==
  LET x == AsUsize(Rem(pos[1], CHUNK_WIDTH))
      y == AsUsize(pos[2])
      z == AsUsize(Rem(pos[3], CHUNK_WIDTH))
      sum == (z * CHUNK_WIDTH) + x
      Indexed(i) ==
        IF y >= Len(ch.sections) THEN Panicked
        ELSE IF i >= Len(ch.sections[y + 1].blocks) THEN Panicked
        ELSE Returned(ch.sections[y + 1].blocks[i + 1])
  IN IF sum >= UsizeModulus
     THEN {Panicked, Indexed(sum % UsizeModulus)}
     ELSE {Indexed(sum)}

(***************************************************************************)
(* Chunk::bake: the three classification predicates.                       *)
(***************************************************************************)
GrassPredicate(state, grass_index) ==
  IF state.packed_key = None THEN FALSE
  ELSE Unwrap(state.packed_key) = grass_index

GlassPredicate(state, glass_index) ==
  IF state.packed_key = None THEN FALSE
  ELSE Unwrap(state.packed_key) = glass_index

\* a variant of TerrainPredicate: the two tests are joined by `||`
TerrainPredicateEither(state, grass_index, glass_index) ==
  IF state.packed_key = None THEN FALSE
  ELSE Unwrap(state.packed_key) # grass_index \/ Unwrap(state.packed_key) # glass_index

TerrainPredicate(state, grass_index, glass_index) ==
  IF state.packed_key = None THEN FALSE
  ELSE Unwrap(state.packed_key) # grass_index /\ Unwrap(state.packed_key) # glass_index

\* the boxed closures handed to BakedChunkLayer::bake: the captured indices
\* and the body to run
GrassClosure(grass_index) == [body |-> "grass", grass_index |-> grass_index]
GlassClosure(glass_index) == [body |-> "glass", glass_index |-> glass_index]
TerrainClosure(grass_index, glass_index) ==
  [body |-> "terrain", grass_index |-> grass_index, glass_index |-> glass_index]

\* calling a closure on a block state
Call(closure, state) ==
  CASE closure.body = "grass" -> GrassPredicate(state, closure.grass_index)
    [] closure.body = "glass" -> GlassPredicate(state, closure.glass_index)
    [] closure.body = "terrain" ->
         TerrainPredicate(state, closure.grass_index, closure.glass_index)

(***************************************************************************)
(* The mesh layer baker: bake, new, extend, upload.                        *)
(***************************************************************************)
\* every block of a chunk in section order, with the chunk it comes from
ChunkCells(ch, c) ==
  [f \in 1..CHUNK_VOLUME |->
     LET s == ((f - 1) \div SECTION_VOLUME) + 1
         i == ((f - 1) % SECTION_VOLUME) + 1
     IN [chunk |-> c, pos |-> ch.pos, y |-> ch.sections[s].offset_y,
         index |-> i - 1, state |-> ch.sections[s].blocks[i]]]

\* BakedChunkLayer::bake: one vertex per block the predicate accepts
LayerBake(ch, c, predicate) ==
  SelectSeq(ChunkCells(ch, c), LAMBDA v : Call(predicate, v.state))

\* BakedChunkLayer::new
LayerNew == <<>>

\* BakedChunkLayer::extend
LayerExtend(target, source) == target \o source

\* BakedChunkLayer::upload: the buffers and their vertex count
LayerUpload(layer, pass) == [buffer |-> layer, count |-> Len(layer), pass |-> pass]

(***************************************************************************)
(* Chunk::bake: the bundle.                                                *)
(***************************************************************************)
\* the registry lookups of Chunk::bake succeed (else the unwrap panics)
BakeLookupsOk(reg) == IsSome(MapGet(reg, GrassName)) /\ IsSome(MapGet(reg, GlassName))

\* the ChunkLayers value built by one Chunk::bake call; `call` names the call
ChunkLayers(ch, c, reg, call) ==
  LET grass_index == Unwrap(MapGet(reg, GrassName))
      glass_index == Unwrap(MapGet(reg, GlassName))
  IN [grass |-> [verts |-> LayerBake(ch, c, GrassClosure(grass_index)), call |-> call],
      glass |-> [verts |-> LayerBake(ch, c, GlassClosure(glass_index)), call |-> call],
      terrain |-> [verts |-> LayerBake(ch, c, TerrainClosure(grass_index, glass_index)),
                   call |-> call]]


(***************************************************************************)
(* State.                                                                  *)
(***************************************************************************)
VARIABLES
  registry,         \* wm.mc.block_manager: variant_indices
  chunk,            \* the Chunk objects: chunk id -> [pos, sections, baked]
  bundles,          \* the Arc<Option<ChunkLayers>> objects: cell id -> Option
  loaded_chunks,    \* ChunkManager.loaded_chunks: position -> chunk id
  section_buffers,  \* ChunkManager.section_buffers: id of the published Arc
  heap,             \* the Arc<HashMap<String, WorldBuffers>> objects
  strong,           \* strong count of each object of heap
  freed,            \* objects of heap whose memory has been reclaimed
  pc,               \* position of each thread in bake_meshes
  passId,           \* number of the bake_meshes call a thread is running
  chunks,           \* bake_meshes: the snapshot
  bakedDone,        \* bake_meshes: snapshot indices whose parallel bake returned
  mergeIdx,         \* bake_meshes: position of the merge loop
  glass,            \* bake_meshes: merged glass layer
  grass,            \* bake_meshes: merged grass layer
  terrain,          \* bake_meshes: merged terrain layer
  map,              \* bake_meshes: the map under construction
  held,             \* number of reader references to each object of heap
  nextPass,         \* number of the next bake_meshes call
  nextChunk,        \* id of the next Chunk object
  late,             \* history: chunks loaded between the snapshot and the store
  gone,             \* history: snapshot chunks unloaded between snapshot and store
  alone,            \* history: no other call overlapped the thread's call
  chunks_guard,     \* threads that hold a read guard of loaded_chunks
  mergedFrom,       \* history: the cells the merge loop in progress has loaded
  snapshots,        \* history: the calls in snapshot order, from the oldest running one
  probe             \* the direct call of a Chunk function that has just returned

shared == <<registry, chunk, bundles, loaded_chunks, section_buffers, heap, strong, freed>>
locals == <<chunks, bakedDone, mergeIdx, glass, grass, terrain, map, mergedFrom>>
history == <<late, gone, alone>>
aux == <<chunks_guard, snapshots, probe>>
vars == <<shared, pc, passId, locals, held, nextPass, nextChunk, history, aux>>

\* allocation of an object in a heap
Alloc(h, id, v) == [x \in (DOMAIN h) \cup {id} |-> IF x = id THEN v ELSE h[x]]

Range(f) == {f[x] : x \in DOMAIN f}

\* the orders in which HashMap::iter may visit the keys of a map
Orders(S) == {f \in [1..Cardinality(S) -> S] : \A i, j \in DOMAIN f : f[i] = f[j] => i = j}

\* HashMap::new
EmptyMap == [k \in {} |-> 0]

\* the cell Chunk::new allocates for chunk c, and the one a bake call allocates
InitialCell(c) == <<0, c>>
BakeCell(pass, c) == <<pass, c>>

\* no Chunk function has been called directly
NoProbe == [op |-> "none"]

Init ==
  /\ registry \in Registries
  /\ chunk = [c \in {} |-> 0]
  /\ bundles = [c \in {} |-> 0]
  /\ loaded_chunks = EmptyMap
  /\ section_buffers = 0
  /\ heap = (0 :> EmptyMap)
  /\ strong = (0 :> 1)
  /\ freed = {}
  /\ pc = [p \in Passes |-> "idle"]
  /\ passId = [p \in Passes |-> 0]
  /\ chunks = [p \in Passes |-> <<>>]
  /\ bakedDone = [p \in Passes |-> {}]
  /\ mergeIdx = [p \in Passes |-> 0]
  /\ glass = [p \in Passes |-> LayerNew]
  /\ grass = [p \in Passes |-> LayerNew]
  /\ terrain = [p \in Passes |-> LayerNew]
  /\ map = [p \in Passes |-> EmptyMap]
  /\ held = (0 :> 0)
  /\ nextPass = 1
  /\ nextChunk = 1
  /\ late = [p \in Passes |-> {}]
  /\ gone = [p \in Passes |-> {}]
  /\ alone = [p \in Passes |-> FALSE]
  /\ chunks_guard = {}
  /\ mergedFrom = [p \in Passes |-> <<>>]
  /\ snapshots = <<>>
  /\ probe = NoProbe


(***************************************************************************)
(* ChunkManager::bake_meshes.                                              *)
(***************************************************************************)
\* variants of PassSteps: the store placed after the first insert, and the
\* store placed before the inserts
PassStepsStoreEarly == <<"transparent", "store", "grass", "terrain">>
PassStepsStoreFirst == <<"store", "transparent", "grass", "terrain">>

\* the statements after the merge loop, in program order: the three
\* map.insert(.., upload) and then section_buffers.store
PassSteps == <<"transparent", "grass", "terrain", "store">>

StepIndex(s) == CHOOSE i \in 1..Len(PassSteps) : PassSteps[i] = s
NextStep(s) == IF StepIndex(s) = Len(PassSteps) THEN "done" ELSE PassSteps[StepIndex(s) + 1]

\* a variant of SnapshotChunk: the snapshot keeps positions, and the chunk is
\* looked up again in loaded_chunks when it is used
SnapshotChunkByPos(p, i) ==
  LET pos == chunk[chunks[p][i]].pos
  IN IF pos \in DOMAIN loaded_chunks THEN loaded_chunks[pos] ELSE chunks[p][i]

\* the chunk a pass works on at position i of its snapshot: the Arc<Chunk>
\* that load_full returned when the snapshot was taken
SnapshotChunk(p, i) == chunks[p][i]

\* a variant of BarrierPassed: the merge does not wait for the bakes
BarrierPassedNoWait(p) == TRUE

\* par_iter().for_each returns once the closure has run for every element
BarrierPassed(p) == bakedDone[p] = 1..Len(chunks[p])

\* a variant of StoredBundle: the layers are replaced one field at a time and
\* the grass layer of the previous bundle is kept
StoredBundleMixed(prev, built) ==
  IF prev = None THEN Some(built)
  ELSE Some([built EXCEPT !.grass = Unwrap(prev).grass])

\* a variant of StoredBundle: the new layers are appended to the layers of the
\* previous bundle
StoredBundleAppended(prev, built) ==
  IF prev = None THEN Some(built)
  ELSE Some([l \in {"grass", "glass", "terrain"} |->
               [verts |-> Unwrap(prev)[l].verts \o built[l].verts, call |-> built[l].call]])

\* what Chunk::bake puts into the Arc it stores
StoredBundle(prev, built) == Some(built)

\* a variant of MergeLayers: grass is extended with the glass layer
MergeLayersSwapped(acc, layers) ==
  [glass |-> LayerExtend(acc.glass, layers.glass.verts),
   grass |-> LayerExtend(acc.grass, layers.glass.verts),
   terrain |-> LayerExtend(acc.terrain, layers.terrain.verts)]

\* the body of the merge loop: glass, grass and terrain are each extended
MergeLayers(acc, layers) ==
  [glass |-> LayerExtend(acc.glass, layers.glass.verts),
   grass |-> LayerExtend(acc.grass, layers.grass.verts),
   terrain |-> LayerExtend(acc.terrain, layers.terrain.verts)]

\* a variant of StoreCell: the published map is overwritten in place
StoreCellInPlace(cur, fresh) == cur

\* section_buffers.store(Arc::new(map)): the cell that holds the new map
StoreCell(cur, fresh) == fresh

\* a variant of DropArc: the object is released whatever its count
DropArcForce(count) == 0

\* dropping one reference to an Arc
DropArc(count) == count - 1

Active(p) == pc[p] # "idle"

RECURSIVE LiveOrder(_, _)
\* the snapshot order from the oldest snapshot of a call that is still running
LiveOrder(order, live) ==
  IF order = <<>> \/ Head(order) \in live THEN order ELSE LiveOrder(Tail(order), live)

\* a variant of HoldsRegistryGuard: the guard is a temporary that is dropped
\* before the snapshot is taken
HoldsRegistryGuardUntilSnapshot(p) == pc[p] \in {"snapshot", "collect"}

\* `block_manager`, the read guard of the registry, is a local of bake_meshes:
\* it is held from the first statement until the function returns or unwinds
HoldsRegistryGuard(p) == Active(p)

ResetLocals(p) ==
  /\ chunks' = [chunks EXCEPT ![p] = <<>>]
  /\ bakedDone' = [bakedDone EXCEPT ![p] = {}]
  /\ mergeIdx' = [mergeIdx EXCEPT ![p] = 0]
  /\ glass' = [glass EXCEPT ![p] = LayerNew]
  /\ grass' = [grass EXCEPT ![p] = LayerNew]
  /\ terrain' = [terrain EXCEPT ![p] = LayerNew]
  /\ map' = [map EXCEPT ![p] = EmptyMap]
  /\ late' = [late EXCEPT ![p] = {}]
  /\ gone' = [gone EXCEPT ![p] = {}]
  /\ alone' = [alone EXCEPT ![p] = FALSE]
  /\ mergedFrom' = [mergedFrom EXCEPT ![p] = <<>>]

\* a panic unwinds bake_meshes: the registry guard and the locals are dropped
Panic(p) ==
  /\ pc' = [pc EXCEPT ![p] = "idle"]
  /\ passId' = [passId EXCEPT ![p] = 0]
  /\ ResetLocals(p)
  /\ snapshots' = LiveOrder(snapshots, {passId[q] : q \in {o \in Passes \ {p} : Active(o)}})
  /\ UNCHANGED <<shared, held, nextPass, nextChunk, chunks_guard, probe>>

\* let block_manager = wm.mc.block_manager.read()
StartPass(p) ==
  /\ pc[p] = "idle"
  /\ nextPass <= MaxPassCalls
  /\ \A i \in 1..Len(Threads) : Threads[i] = p => \A j \in 1..(i - 1) : Active(Threads[j])
  /\ pc' = [pc EXCEPT ![p] = "snapshot"]
  /\ passId' = [passId EXCEPT ![p] = nextPass]
  /\ nextPass' = nextPass + 1
  /\ alone' = [q \in Passes |->
                 IF q = p THEN \A o \in Passes \ {p} : ~Active(o) ELSE FALSE]
  /\ UNCHANGED <<shared, locals, held, nextChunk, late, gone, aux>>

\* self.loaded_chunks.read(): a read guard, shared with other readers
AcquireChunksGuard(p) ==
  /\ pc[p] = "snapshot"
  /\ chunks_guard' = chunks_guard \cup {p}
  /\ pc' = [pc EXCEPT ![p] = "collect"]
  /\ UNCHANGED <<shared, passId, locals, held, nextPass, nextChunk, history,
                 snapshots, probe>>

\* a variant of ReleaseChunksGuard: the guard is bound to a variable of
\* bake_meshes and lives until the function returns
ReleaseChunksGuardAtReturn(guards, p) == guards

\* the end of the block `let chunks = { .. }`: the temporary guard is dropped
ReleaseChunksGuard(guards, p) == guards \ {p}

\* let chunks = { loaded_chunks.read().iter().map(load_full).collect() }
TakeSnapshot(p) ==
  /\ pc[p] = "collect"
  /\ \E order \in Orders(DOMAIN loaded_chunks) :
       chunks' = [chunks EXCEPT ![p] =
                    [i \in 1..Cardinality(DOMAIN loaded_chunks) |-> loaded_chunks[order[i]]]]
  /\ chunks_guard' = ReleaseChunksGuard(chunks_guard, p)
  /\ snapshots' = Append(snapshots, passId[p])
  /\ pc' = [pc EXCEPT ![p] = "bake"]
  /\ UNCHANGED <<shared, passId, bakedDone, mergeIdx, glass, grass, terrain, map,
                 mergedFrom, held, nextPass, nextChunk, history, probe>>

\* one element of chunks.par_iter().for_each(|chunk| chunk.bake(..)): Chunk::bake
BakeChunk(p, i) ==
  /\ pc[p] = "bake"
  /\ i \in (1..Len(chunks[p])) \ bakedDone[p]
  /\ IF ~BakeLookupsOk(registry)
     THEN Panic(p)
     ELSE LET c == SnapshotChunk(p, i)
              call == BakeCell(passId[p], c)
              built == ChunkLayers(chunk[c], c, registry, call)
          IN /\ bundles' = Alloc(bundles, call, StoredBundle(bundles[chunk[c].baked], built))
             /\ chunk' = [chunk EXCEPT ![c].baked = call]
             /\ bakedDone' = [bakedDone EXCEPT ![p] = @ \cup {i}]
             /\ UNCHANGED <<registry, loaded_chunks, section_buffers, heap, strong, freed,
                            pc, passId, chunks, mergeIdx, glass, grass, terrain, map,
                            mergedFrom, held, nextPass, nextChunk, history, aux>>

\* for_each has returned; glass, grass and terrain start empty
Barrier(p) ==
  /\ pc[p] = "bake"
  /\ BarrierPassed(p)
  /\ pc' = [pc EXCEPT ![p] = "merge"]
  /\ mergeIdx' = [mergeIdx EXCEPT ![p] = 1]
  /\ UNCHANGED <<shared, passId, chunks, bakedDone, glass, grass, terrain, map,
                 mergedFrom, held, nextPass, nextChunk, history, aux>>

\* one iteration of chunks.iter().for_each: load the baked slot, unwrap, extend
MergeChunk(p) ==
  /\ pc[p] = "merge"
  /\ mergeIdx[p] <= Len(chunks[p])
  /\ LET c == SnapshotChunk(p, mergeIdx[p])
         baked == bundles[chunk[c].baked]
     IN IF baked = None
        THEN Panic(p)
        ELSE LET acc == MergeLayers([glass |-> glass[p], grass |-> grass[p],
                                     terrain |-> terrain[p]], Unwrap(baked))
             IN /\ glass' = [glass EXCEPT ![p] = acc.glass]
                /\ grass' = [grass EXCEPT ![p] = acc.grass]
                /\ terrain' = [terrain EXCEPT ![p] = acc.terrain]
                /\ mergeIdx' = [mergeIdx EXCEPT ![p] = @ + 1]
                /\ mergedFrom' = [mergedFrom EXCEPT ![p] = Append(@, chunk[c].baked)]
                /\ UNCHANGED <<shared, pc, passId, chunks, bakedDone, map,
                               held, nextPass, nextChunk, history, aux>>

\* the merge loop is over: let mut map = HashMap::new()
MergeDone(p) ==
  /\ pc[p] = "merge"
  /\ mergeIdx[p] > Len(chunks[p])
  /\ pc' = [pc EXCEPT ![p] = PassSteps[1]]
  /\ map' = [map EXCEPT ![p] = EmptyMap]
  /\ mergedFrom' = [mergedFrom EXCEPT ![p] = <<>>]
  /\ UNCHANGED <<shared, passId, chunks, bakedDone, mergeIdx, glass, grass, terrain,
                 held, nextPass, nextChunk, history, aux>>

\* the merged layer uploaded under each key
LayerOfKey(p, key) ==
  CASE key = "transparent" -> glass[p]
    [] key = "grass" -> grass[p]
    [] key = "terrain" -> terrain[p]

\* map.insert(key, layer.upload(wm))
UploadInsert(p) ==
  /\ pc[p] \in {"transparent", "grass", "terrain"}
  /\ map' = [map EXCEPT ![p] =
               MapInsert(@, pc[p], LayerUpload(LayerOfKey(p, pc[p]), passId[p]))]
  /\ pc' = [pc EXCEPT ![p] = NextStep(pc[p])]
  /\ UNCHANGED <<shared, passId, chunks, bakedDone, mergeIdx, glass, grass, terrain,
                 mergedFrom, held, nextPass, nextChunk, history, aux>>

\* layer.upload(wm) fails: the GPU buffer cannot be created
UploadFail(p) ==
  /\ pc[p] \in {"transparent", "grass", "terrain"}
  /\ Panic(p)

\* self.section_buffers.store(Arc::new(map))
Store(p) ==
  /\ pc[p] = "store"
  /\ LET cur == section_buffers
         cell == StoreCell(cur, passId[p])
         left == DropArc(strong[cur])
     IN /\ heap' = Alloc(heap, cell, map[p])
        /\ section_buffers' = cell
        /\ IF cell = cur
           THEN UNCHANGED <<strong, freed, held>>
           ELSE /\ strong' = Alloc(Alloc(strong, cur, left), cell, 1)
                /\ freed' = IF left = 0 THEN freed \cup {cur} ELSE freed
                /\ held' = Alloc(held, cell, 0)
  /\ pc' = [pc EXCEPT ![p] = NextStep("store")]
  /\ UNCHANGED <<registry, chunk, bundles, loaded_chunks, passId, locals,
                 nextPass, nextChunk, late, gone, alone, aux>>

\* bake_meshes returns: the registry guard and the locals are dropped
Return(p) ==
  /\ pc[p] = "done"
  /\ pc' = [pc EXCEPT ![p] = "idle"]
  /\ passId' = [passId EXCEPT ![p] = 0]
  /\ ResetLocals(p)
  /\ snapshots' = LiveOrder(snapshots, {passId[q] : q \in {o \in Passes \ {p} : Active(o)}})
  /\ UNCHANGED <<shared, held, nextPass, nextChunk, chunks_guard, probe>>


(***************************************************************************)
(* The callers of ChunkManager: chunk load and unload, registry writers    *)
(* and the readers of the published references.                            *)
(***************************************************************************)
\* the thread has taken its snapshot and has not yet returned from the store
SnapshotTaken(p) == pc[p] \notin {"idle", "snapshot", "collect", "done"}

\* loaded_chunks.write().insert(pos, ArcSwap::new(Arc::new(Chunk::new(pos, blocks))))
LoadChunk(pos, blocks) ==
  /\ nextChunk <= MaxChunks
  /\ chunks_guard = {}
  /\ LET c == nextChunk
         old == MapGet(loaded_chunks, pos)
     IN /\ chunk' = Alloc(chunk, c, Chunk_new(pos, blocks, InitialCell(c)))
        /\ bundles' = Alloc(bundles, InitialCell(c), InitialBaked)
        /\ loaded_chunks' = MapInsert(loaded_chunks, pos, c)
        /\ late' = [p \in Passes |-> IF SnapshotTaken(p) THEN late[p] \cup {c} ELSE late[p]]
        /\ gone' = [p \in Passes |->
                      IF SnapshotTaken(p) /\ IsSome(old) /\ Unwrap(old) \in Range(chunks[p])
                      THEN gone[p] \cup {Unwrap(old)} ELSE gone[p]]
  /\ nextChunk' = nextChunk + 1
  /\ UNCHANGED <<registry, section_buffers, heap, strong, freed, pc, passId, locals,
                 held, nextPass, alone, aux>>

\* loaded_chunks.write().remove(&pos)
UnloadChunk(pos) ==
  /\ pos \in DOMAIN loaded_chunks
  /\ chunks_guard = {}
  /\ loaded_chunks' = [q \in (DOMAIN loaded_chunks) \ {pos} |-> loaded_chunks[q]]
  /\ gone' = [p \in Passes |->
                IF SnapshotTaken(p) /\ loaded_chunks[pos] \in Range(chunks[p])
                THEN gone[p] \cup {loaded_chunks[pos]} ELSE gone[p]]
  /\ UNCHANGED <<registry, chunk, bundles, section_buffers, heap, strong, freed, pc,
                 passId, locals, held, nextPass, nextChunk, late, alone, aux>>

\* block_manager.write(): excluded while any bake_meshes call holds the read guard
SetRegistry(reg) ==
  /\ \A p \in Passes : ~HoldsRegistryGuard(p)
  /\ reg # registry
  /\ registry' = reg
  /\ UNCHANGED <<chunk, bundles, loaded_chunks, section_buffers, heap, strong, freed,
                 pc, passId, locals, held, nextPass, nextChunk, history, aux>>

HeldTotal == LET RECURSIVE Sum(_)
                 Sum(S) == IF S = {} THEN 0
                           ELSE LET x == CHOOSE y \in S : TRUE IN held[x] + Sum(S \ {x})
             IN Sum(DOMAIN held)

\* a reader takes a reference to the published mapping (section_buffers.load)
ReaderLoad ==
  /\ HeldTotal < MaxReaderRefs
  /\ held' = [held EXCEPT ![section_buffers] = @ + 1]
  /\ strong' = [strong EXCEPT ![section_buffers] = @ + 1]
  /\ UNCHANGED <<registry, chunk, bundles, loaded_chunks, section_buffers, heap, freed,
                 pc, passId, locals, nextPass, nextChunk, history, aux>>

\* a reader drops a reference it holds to the object id
ReaderDrop(id) ==
  /\ id \in DOMAIN held
  /\ held[id] > 0
  /\ held' = [held EXCEPT ![id] = @ - 1]
  /\ LET left == DropArc(strong[id])
     IN /\ strong' = [strong EXCEPT ![id] = left]
        /\ freed' = IF left = 0 THEN freed \cup {id} ELSE freed
  /\ UNCHANGED <<registry, chunk, bundles, loaded_chunks, section_buffers, heap,
                 pc, passId, locals, nextPass, nextChunk, history, aux>>

Next ==
  \/ \E p \in Passes : StartPass(p)
  \/ \E p \in Passes : AcquireChunksGuard(p)
  \/ \E p \in Passes : TakeSnapshot(p)
  \/ \E p \in Passes : \E i \in 1..MaxChunks : BakeChunk(p, i)
  \/ \E p \in Passes : Barrier(p)
  \/ \E p \in Passes : MergeChunk(p)
  \/ \E p \in Passes : MergeDone(p)
  \/ \E p \in Passes : UploadInsert(p)
  \/ \E p \in Passes : UploadFail(p)
  \/ \E p \in Passes : Store(p)
  \/ \E p \in Passes : Return(p)
  \/ \E pos \in Positions : \E blocks \in BlockArrays : LoadChunk(pos, blocks)
  \/ \E pos \in Positions : UnloadChunk(pos)
  \/ \E reg \in Registries : SetRegistry(reg)
  \/ ReaderLoad
  \/ \E id \in 0..MaxPassCalls : ReaderDrop(id)

Spec == Init /\ [][Next]_vars

\* the next statement of the bake_meshes call running on thread p
PassStep(p) ==
  \/ AcquireChunksGuard(p)
  \/ TakeSnapshot(p)
  \/ \E i \in 1..MaxChunks : BakeChunk(p, i)
  \/ Barrier(p)
  \/ MergeChunk(p)
  \/ MergeDone(p)
  \/ UploadInsert(p)
  \/ Store(p)
  \/ Return(p)

\* fair scheduling: a thread that runs bake_meshes and whose next statement can
\* execute eventually executes it (the rayon workers and the OS scheduler do
\* not starve a runnable thread; the read guards and ArcSwap never block it)
\* the calls of bake_meshes with the chunk loads and unloads around them;
\* the registry is the one the behaviour starts with and nothing is read
NextPasses ==
  \/ \E p \in Passes : StartPass(p)
  \/ \E p \in Passes : PassStep(p)
  \/ \E p \in Passes : UploadFail(p)
  \/ \E pos \in Positions : \E blocks \in BlockArrays : LoadChunk(pos, blocks)
  \/ \E pos \in Positions : UnloadChunk(pos)

FairSpec == Init /\ [][NextPasses]_vars /\ \A p \in Passes : WF_vars(PassStep(p))


(***************************************************************************)
(* Direct calls of Chunk::new, Chunk::bake, Chunk::blockstate_at_pos and   *)
(* of the classification closures, on inputs drawn from bounded sets.      *)
(***************************************************************************)
\* the block states: air and one state per variant
BlockStates == {Air} \cup {BlockState(Some(k)) : k \in 1..MaxKey}

AllAir == [i \in 1..CHUNK_VOLUME |-> Air]

RECURSIVE ArraysWith(_)
\* the flat arrays of chunk volume with at most n blocks that are not air
ArraysWith(n) ==
  IF n = 0 THEN {AllAir}
  ELSE LET fewer == ArraysWith(n - 1)
       IN fewer \cup {[a EXCEPT ![i] = b] : a \in fewer, i \in 1..CHUNK_VOLUME,
                                            b \in BlockStates \ {Air}}

SparseArrays == ArraysWith(MaxBlocks)

\* BlockPos values: x and z are signed world coordinates, y is unsigned and
\* ranges over the sections and one value past them
BlockPositions ==
  {<<x, y, z>> : x \in (0 - MaxCoord)..MaxCoord, y \in 0..CHUNK_SECTIONS_PER,
                 z \in (0 - MaxCoord)..MaxCoord}

\* Chunk::new(pos, blocks)
NewProbe(pos, blocks) ==
  /\ probe = NoProbe
  /\ DOMAIN chunk = {}
  /\ chunk' = Alloc(chunk, nextChunk, Chunk_new(pos, blocks, InitialCell(nextChunk)))
  /\ bundles' = Alloc(bundles, InitialCell(nextChunk), InitialBaked)
  /\ nextChunk' = nextChunk + 1
  /\ probe' = [op |-> "new", pos |-> pos, blocks |-> blocks]
  /\ UNCHANGED <<registry, loaded_chunks, section_buffers, heap, strong, freed, pc,
                 passId, locals, held, nextPass, history, chunks_guard, snapshots>>

\* chunk.bake(&block_manager) on chunk c; the calls are numbered by nextPass
BakeProbe(c) ==
  /\ probe = NoProbe
  /\ c \in DOMAIN chunk
  /\ nextPass <= MaxPassCalls
  /\ nextPass' = nextPass + 1
  /\ IF ~BakeLookupsOk(registry)
     THEN /\ probe' = [op |-> "bake", outcome |-> Panicked]
          /\ UNCHANGED <<chunk, bundles>>
     ELSE LET call == BakeCell(nextPass, c)
              built == ChunkLayers(chunk[c], c, registry, call)
          IN /\ bundles' = Alloc(bundles, call, StoredBundle(bundles[chunk[c].baked], built))
             /\ chunk' = [chunk EXCEPT ![c].baked = call]
             /\ probe' = [op |-> "bake", outcome |-> Returned(c), before |-> chunk[c]]
  /\ UNCHANGED <<registry, loaded_chunks, section_buffers, heap, strong, freed, pc,
                 passId, locals, held, nextChunk, history, chunks_guard, snapshots>>

\* the three closures of Chunk::bake called on one block state
ClassifyProbe(state, grass_index, glass_index) ==
  /\ probe = NoProbe
  /\ probe' = [op |-> "classify", state |-> state,
                grass_index |-> grass_index, glass_index |-> glass_index,
                grass |-> Call(GrassClosure(grass_index), state),
                glass |-> Call(GlassClosure(glass_index), state),
                terrain |-> Call(TerrainClosure(grass_index, glass_index), state)]
  /\ UNCHANGED <<shared, pc, passId, locals, held, nextPass, nextChunk, history,
                 chunks_guard, snapshots>>

\* chunk.blockstate_at_pos(pos) on chunk c
LookupProbe(c, pos) ==
  /\ probe = NoProbe
  /\ c \in DOMAIN chunk
  /\ \E outcome \in blockstate_at_pos(chunk[c], pos) :
       probe' = [op |-> "lookup", chunk |-> c, pos |-> pos, outcome |-> outcome]
  /\ UNCHANGED <<shared, pc, passId, locals, held, nextPass, nextChunk, history,
                 chunks_guard, snapshots>>

\* the caller has taken the result of its call and goes on to the next one
ProbeDone ==
  /\ probe # NoProbe
  /\ probe' = NoProbe
  /\ UNCHANGED <<shared, pc, passId, locals, held, nextPass, nextChunk, history,
                 chunks_guard, snapshots>>

NextChunk ==
  \/ \E pos \in Positions : \E blocks \in SparseArrays : NewProbe(pos, blocks)
  \/ \E c \in 1..MaxChunks : BakeProbe(c)
  \/ \E state \in BlockStates : \E grass_index, glass_index \in 1..MaxKey :
       ClassifyProbe(state, grass_index, glass_index)
  \/ \E c \in 1..MaxChunks : \E pos \in BlockPositions : LookupProbe(c, pos)
  \/ ProbeDone

SpecChunk == Init /\ [][NextChunk]_vars


(***************************************************************************)
(* Properties.                                                             *)
(***************************************************************************)
Keys == {"transparent", "grass", "terrain"}

\* the chunks whose vertices occur in a layer
ChunksIn(layer) == {layer[i].chunk : i \in DOMAIN layer}

\* the chunks whose vertices occur in a map from keys to WorldBuffers
ChunksInMap(m) == UNION {ChunksIn(m[k].buffer) : k \in DOMAIN m}

\* a mapping with the three keys, all three uploaded by the bake_meshes call `pass`
CompleteBy(m, pass) == DOMAIN m = Keys /\ \A k \in Keys : m[k].pass = pass

\* the objects of heap a read can return: the published one and those still held
Readable == {section_buffers} \cup {id \in DOMAIN held : held[id] > 0}

\* C1: every read of the published section_buffers mapping returns either the
\* initial empty mapping of ChunkManager::new or a mapping with the three keys
\* "transparent", "grass" and "terrain" whose buffers were all built by one
\* bake_meshes call that ran up to its store; never some of the keys, never
\* keys of two calls.
C1_PublishedIsOneCompletePass ==
  \A id \in Readable :
    \/ id = 0 /\ heap[id] = EmptyMap
    \/ id \in 1..MaxPassCalls /\ CompleteBy(heap[id], id)

\* C1 witness: a reader holds the complete mapping published by one call while
\* another call, with chunks loaded, has uploaded only some of its keys.
C1_Witness ==
  /\ section_buffers # 0
  /\ held[section_buffers] > 0
  /\ CompleteBy(heap[section_buffers], section_buffers)
  /\ \E p \in Passes : pc[p] = "terrain" /\ DOMAIN map[p] = {"transparent", "grass"}
                       /\ Len(chunks[p]) > 0

\* the three layers of a bundle come from one Chunk::bake call
OneBake(b) == b.grass.call = b.glass.call /\ b.glass.call = b.terrain.call

\* C2: every read of a chunk's baked slot returns None or a ChunkLayers bundle
\* whose grass, glass and terrain layers were produced by one Chunk::bake
\* call; never layers of an older bake mixed with layers of a newer one.
C2_BakedBundleIsOneBake ==
  \A c \in DOMAIN chunk :
    LET o == bundles[chunk[c].baked]
    IN o = None \/ (OneBake(Unwrap(o)) /\ Unwrap(o).grass.call = chunk[c].baked)

\* C2 witness: a chunk baked by two overlapping calls; the slot holds the
\* bundle of the second bake while the first call is still running.
C2_Witness ==
  \E c \in DOMAIN chunk :
    /\ chunk[c].baked = BakeCell(2, c)
    /\ BakeCell(1, c) \in DOMAIN bundles
    /\ \A p \in Passes : pc[p] \in {"bake", "merge"}

\* C3: the merge step of a call begins only after Chunk::bake has returned and
\* stored its bundle for every chunk of the snapshot, in whatever order the
\* parallel bakes finish; when the merge loop loads a snapshot chunk's baked
\* slot it is never None, so the unwrap cannot fail.
C3_MergeAfterAllBakes ==
  \A p \in Passes :
    pc[p] = "merge" =>
      /\ bakedDone[p] = 1..Len(chunks[p])
      /\ \A i \in 1..Len(chunks[p]) : bundles[chunk[chunks[p][i]].baked] # None

\* C3 witness: a call with a snapshot of two chunks is in its merge loop and
\* has merged the first chunk.
C3_Witness ==
  \E p \in Passes : pc[p] = "merge" /\ Len(chunks[p]) = 2 /\ mergeIdx[p] = 2
                    /\ Len(terrain[p]) > 0

\* the generation a call has stored, once it is past its store
Stored(p) == pc[p] = "done" /\ passId[p] \in DOMAIN heap

\* C4: a chunk put into loaded_chunks after a call took its snapshot is not
\* part of that call: it is not in the snapshot, the call does not bake it,
\* its baked slot is not written by the call, and none of its geometry is in
\* the layers the call merges or in the generation the call publishes.
C4_LateChunkNotInPass ==
  \A p \in Passes : \A c \in late[p] :
    /\ c \notin Range(chunks[p])
    /\ BakeCell(passId[p], c) \notin DOMAIN bundles
    /\ chunk[c].baked # BakeCell(passId[p], c)
    /\ c \notin ChunksIn(glass[p]) \cup ChunksIn(grass[p]) \cup ChunksIn(terrain[p])
    /\ c \notin ChunksInMap(map[p])
    /\ Stored(p) => c \notin ChunksInMap(heap[passId[p]])

\* C4 witness: a call with a non-empty snapshot has published its generation,
\* and a chunk was loaded between its snapshot and its store.
C4_Witness ==
  \E p \in Passes :
    /\ Stored(p) /\ section_buffers = passId[p]
    /\ late[p] # {} /\ Len(chunks[p]) > 0
    /\ ChunksInMap(heap[passId[p]]) # {}


\* the layer that is uploaded under each key
KeyLayer(key) ==
  CASE key = "transparent" -> "glass"
    [] key = "grass" -> "grass"
    [] key = "terrain" -> "terrain"

\* the vertices Chunk::bake produces for chunk c in one of the three layers
BakedVerts(c, reg, layer) == ChunkLayers(chunk[c], c, reg, <<>>)[layer].verts

\* the vertices of chunk c in an uploaded layer
VertsOfChunk(layer, c) == SelectSeq(layer, LAMBDA v : v.chunk = c)

\* C5, as stated: a chunk unloaded after a call took its snapshot and before
\* the call publishes does not appear in the geometry of the generation that
\* call publishes.
C5_UnloadedChunkAbsent ==
  \A p \in Passes :
    Stored(p) => \A c \in gone[p] : c \notin ChunksInMap(heap[passId[p]])

\* C5, amended: a chunk unloaded after a call took its snapshot and before the
\* call publishes stays part of that call, whose snapshot holds its own
\* reference to the chunk: the call has baked it, and under each of the three
\* keys the published generation contains exactly that chunk's baked layer.
C5_UnloadedChunkStillPublished ==
  \A p \in Passes :
    Stored(p) =>
      \A c \in gone[p] :
        /\ c \in Range(chunks[p])
        /\ BakeCell(passId[p], c) \in DOMAIN bundles
        /\ \A k \in Keys :
             VertsOfChunk(heap[passId[p]][k].buffer, c) = BakedVerts(c, registry, KeyLayer(k))

\* C5 witness: a call has published a generation that contains the terrain of
\* a snapshot chunk which was unloaded between the snapshot and the store and
\* is no longer in loaded_chunks.
C5_Witness ==
  \E p \in Passes :
    /\ Stored(p) /\ section_buffers = passId[p]
    /\ \E c \in gone[p] :
         /\ c \notin Range(loaded_chunks)
         /\ VertsOfChunk(heap[passId[p]]["terrain"].buffer, c) # <<>>

RECURSIVE ConcatLayers(_, _, _)
\* the concatenation, in snapshot order, of one baked layer of every chunk
ConcatLayers(snap, reg, layer) ==
  IF snap = <<>> THEN <<>>
  ELSE BakedVerts(Head(snap), reg, layer) \o ConcatLayers(Tail(snap), reg, layer)

RECURSIVE SumCounts(_, _, _)
\* the sum of the chunks' individually baked vertex counts for one layer
SumCounts(snap, reg, layer) ==
  IF snap = <<>> THEN 0
  ELSE Len(BakedVerts(Head(snap), reg, layer)) + SumCounts(Tail(snap), reg, layer)

\* C6: for a bake_meshes call running alone, the layer uploaded under each key
\* is the concatenation, in snapshot order, of that material's baked layer of
\* every snapshot chunk (glass under "transparent", grass under "grass",
\* terrain under "terrain"); its vertex count is the sum of the chunks' baked
\* vertex counts, and it is empty when the snapshot is empty.
C6_UploadIsConcatenation ==
  \A p \in Passes :
    (Stored(p) /\ alone[p]) =>
      \A k \in Keys :
        LET wb == heap[passId[p]][k]
        IN /\ wb.buffer = ConcatLayers(chunks[p], registry, KeyLayer(k))
           /\ wb.count = SumCounts(chunks[p], registry, KeyLayer(k))
           /\ chunks[p] = <<>> => (wb.buffer = <<>> /\ wb.count = 0)

\* C6 witness: a call that ran alone on a snapshot of two chunks has published;
\* its terrain holds one vertex of each chunk and its grass and glass differ.
C6_Witness ==
  \E p \in Passes :
    /\ Stored(p) /\ alone[p] /\ Len(chunks[p]) = 2
    /\ heap[passId[p]]["terrain"].count = 2
    /\ heap[passId[p]]["grass"].buffer # heap[passId[p]]["transparent"].buffer

\* a step in which the bake_meshes call of thread p fails (panics)
Fails(p) == Active(p) /\ pc[p] # "done" /\ pc'[p] = "idle"

\* C7: when a bake_meshes call fails before completing (an upload fails, or a
\* registry entry is missing in some chunk's bake), the published mapping is
\* unchanged: the call has stored nothing, and section_buffers still refers to
\* the complete mapping of the generation published before.
C7_FailedPassLeavesPublished ==
  [][\A p \in Passes :
       Fails(p) =>
         /\ passId[p] \notin DOMAIN heap
         /\ section_buffers' = section_buffers
         /\ heap' = heap
         /\ section_buffers # 0 => CompleteBy(heap'[section_buffers'], section_buffers')]_vars

\* C7 witness: two calls were started and both have ended; the second never
\* stored (it failed) and the complete generation of the first is published.
C7_Witness ==
  /\ nextPass = 3
  /\ \A p \in Passes : ~Active(p)
  /\ DOMAIN heap = {0, 1}
  /\ section_buffers = 1
  /\ CompleteBy(heap[1], 1)
  /\ heap[1]["terrain"].count > 0

\* the Chunk::bake call of thread p on chunk c returns in this step
BakeReturns(p, c) == \E i \in bakedDone'[p] \ bakedDone[p] : chunks[p][i] = c

\* C8: a chunk's baked slot is None from Chunk::new until the first
\* Chunk::bake on it returns; from then on it holds the bundle of the bake
\* that returned last and never goes back to None.
C8_BakedSlotLifecycle ==
  [][\A c \in DOMAIN chunk' :
       IF c \notin DOMAIN chunk
       THEN bundles'[chunk'[c].baked] = None
       ELSE /\ bundles[chunk[c].baked] # None => bundles'[chunk'[c].baked] # None
            /\ \A p \in Passes :
                 BakeReturns(p, c) =>
                   /\ chunk'[c].baked = BakeCell(passId[p], c)
                   /\ bundles'[chunk'[c].baked] =
                        Some(ChunkLayers(chunk[c], c, registry, BakeCell(passId[p], c)))
            /\ (\A p \in Passes : ~BakeReturns(p, c)) =>
                 /\ chunk'[c].baked = chunk[c].baked
                 /\ bundles'[chunk'[c].baked] = bundles[chunk[c].baked]]_vars

\* C8 witness: both calls have returned; a loaded chunk that one of them baked
\* first now holds the bundle of the other call's later bake, and a chunk
\* created afterwards still holds None.
C8_Witness ==
  /\ \A p \in Passes : ~Active(p)
  /\ \E c, d \in DOMAIN chunk :
       /\ chunk[c].baked = BakeCell(1, c)
       /\ BakeCell(2, c) \in DOMAIN bundles
       /\ bundles[chunk[c].baked] # None
       /\ bundles[chunk[d].baked] = None

\* C9: a reader that holds a reference to a published mapping sees the same
\* contents through it for as long as it holds it, however many generations
\* are published meanwhile; likewise the contents of a chunk's baked bundle
\* never change once it is stored, so any reference to it keeps its contents.
C9_HeldReferenceIsStable ==
  [][/\ \A id \in DOMAIN held : (held[id] > 0 /\ held'[id] > 0) => heap'[id] = heap[id]
     /\ \A cell \in DOMAIN bundles : bundles'[cell] = bundles[cell]]_vars

\* C9 witness: a reader still holds the initial mapping after two later
\* generations were published, and a chunk has been baked twice.
C9_Witness ==
  /\ held[0] > 0
  /\ section_buffers = 2
  /\ 1 \in DOMAIN heap
  /\ \E c \in DOMAIN chunk : {BakeCell(1, c), BakeCell(2, c)} \subseteq DOMAIN bundles

\* C10: a published buffer set is not reclaimed while it is the published one
\* or while a reader holds a reference to it, and once it is superseded it is
\* reclaimed as soon as the last reader reference is dropped.
C10_ReclaimedIffUnreferenced ==
  \A id \in DOMAIN heap :
    id \in freed <=> (id # section_buffers /\ held[id] = 0)

\* C10 witness: a superseded generation with chunk geometry is held by two
\* readers and not reclaimed, while an older superseded one, no longer held,
\* has been reclaimed.
C10_Witness ==
  \E id \in DOMAIN heap :
    /\ id # section_buffers /\ id # 0
    /\ held[id] = 2 /\ id \notin freed
    /\ 0 \in freed


\* the closures that accepted the block state of a classification
Accepting == {l \in {"grass", "glass", "terrain"} : probe[l]}

\* C11: when the grass key and the glass key differ, a block state with a
\* packed key is accepted by exactly one of the three closures of Chunk::bake:
\* by grass iff its key is the grass key, by glass iff its key is the glass
\* key, by terrain otherwise; a block state without a packed key (air) is
\* accepted by none of them.
C11_ExactlyOneLayer ==
  (probe.op = "classify" /\ probe.grass_index # probe.glass_index) =>
    IF probe.state.packed_key = None
    THEN Accepting = {}
    ELSE LET key == Unwrap(probe.state.packed_key)
         IN /\ Cardinality(Accepting) = 1
            /\ probe.grass <=> key = probe.grass_index
            /\ probe.glass <=> key = probe.glass_index
            /\ probe.terrain <=> (key # probe.grass_index /\ key # probe.glass_index)

\* C11 witness: with distinct grass and glass keys, a glass block has been
\* classified and only the glass closure accepted it.
C11_Witness ==
  /\ probe.op = "classify"
  /\ probe.grass_index # probe.glass_index
  /\ probe.state.packed_key = Some(probe.glass_index)
  /\ Accepting = {"glass"}

RECURSIVE ConcatSections(_)
\* the blocks of a sequence of sections, one section after the other
ConcatSections(secs) ==
  IF secs = <<>> THEN <<>>
  ELSE [k \in 1..Len(Head(secs).blocks) |-> Head(secs).blocks[k]]
       \o ConcatSections(Tail(secs))

\* C12: for every flat array of exactly chunk volume, Chunk::new produces
\* CHUNK_HEIGHT / CHUNK_SECTION_HEIGHT sections whose offset_y starts at 0 and
\* strictly increases, and the sections' blocks concatenated in order
\* reproduce the input array.
C12_SectionsPartitionInput ==
  probe.op = "new" =>
    \A c \in DOMAIN chunk :
      LET secs == chunk[c].sections
      IN /\ Len(probe.blocks) = CHUNK_VOLUME
         /\ Len(secs) = CHUNK_HEIGHT \div CHUNK_SECTION_HEIGHT
         /\ secs[1].offset_y = 0
         /\ \A i \in 1..(Len(secs) - 1) : secs[i].offset_y < secs[i + 1].offset_y
         /\ ConcatSections([i \in 1..Len(secs) |-> secs[i]]) = probe.blocks

\* C12 witness: Chunk::new has returned a chunk for an array with a block in
\* the first section and a block of another variant in the last section, and
\* each of the two sections holds its block.
C12_Witness ==
  /\ probe.op = "new"
  /\ \E c \in DOMAIN chunk : \E i, j \in 1..SECTION_VOLUME :
       LET first == chunk[c].sections[1].blocks[i]
           last == chunk[c].sections[CHUNK_SECTIONS_PER].blocks[j]
       IN /\ first # Air /\ last # Air /\ first # last
          /\ probe.blocks[i] = first
          /\ probe.blocks[(CHUNK_SECTIONS_PER - 1) * SECTION_VOLUME + j] = last

\* C13: each section's empty flag is true exactly when no block contained in
\* that section has a packed key: in a chunk with blocks in only some sections
\* the other sections are marked empty, and in a chunk of air every section is.
C13_EmptyFlagPerSection ==
  \A c \in DOMAIN chunk :
    \A i \in 1..Len(chunk[c].sections) :
      LET section == chunk[c].sections[i]
      IN section.empty <=>
           \A k \in 1..Len(section.blocks) : ~IsSome(section.blocks[k].packed_key)

\* C14: for y a valid section index and x, z arbitrary world coordinates,
\* also outside the chunk's footprint and negative, blockstate_at_pos returns
\* without failing the block of section y at index
\* (z mod CHUNK_WIDTH) * CHUNK_WIDTH + (x mod CHUNK_WIDTH), which is element
\* y * CHUNK_AREA + (z mod CHUNK_WIDTH) * CHUNK_WIDTH + (x mod CHUNK_WIDTH) of
\* the flat array.
C14_LookupWrapsCoordinates ==
  (probe.op = "lookup" /\ probe.pos[2] < CHUNK_SECTIONS_PER) =>
    LET x == probe.pos[1]
        y == probe.pos[2]
        z == probe.pos[3]
        secs == chunk[probe.chunk].sections
        index == (z % CHUNK_WIDTH) * CHUNK_WIDTH + (x % CHUNK_WIDTH)
        flat == ConcatSections([i \in 1..Len(secs) |-> secs[i]])
    IN /\ probe.outcome = Returned(secs[y + 1].blocks[index + 1])
       /\ probe.outcome = Returned(flat[y * CHUNK_AREA + index + 1])

\* C15: with an unchanged registry, baking a chunk a second time stores a
\* bundle whose grass, glass and terrain layers have the same content and the
\* same vertex counts as the bundle of the first bake, and a bake changes
\* nothing of the chunk but its baked slot: pos and sections stay as they were.
C15_BakeIsIdempotent ==
  (probe.op = "bake" /\ probe.outcome # Panicked) =>
    LET c == probe.outcome.value
        before == probe.before
        previous == bundles[before.baked]
        stored == bundles[chunk[c].baked]
    IN /\ chunk[c].pos = before.pos
       /\ chunk[c].sections = before.sections
       /\ stored # None
       /\ previous # None =>
            \A l \in {"grass", "glass", "terrain"} :
              /\ Unwrap(stored)[l].verts = Unwrap(previous)[l].verts
              /\ Len(Unwrap(stored)[l].verts) = Len(Unwrap(previous)[l].verts)

\* C15 witness: a chunk with a grass block and a terrain block has been baked
\* a second time; the slot holds the bundle of the second call and the bundle
\* of the first call has a grass and a terrain vertex.
C15_Witness ==
  /\ probe.op = "bake" /\ probe.outcome # Panicked
  /\ LET c == probe.outcome.value
         previous == bundles[probe.before.baked]
     IN /\ previous # None
        /\ chunk[c].baked # probe.before.baked
        /\ Len(Unwrap(previous).grass.verts) = 1
        /\ Len(Unwrap(previous).terrain.verts) = 1

\* the positions of bake_meshes from its first statement to its return
PassPositions ==
  {"snapshot", "collect", "bake", "merge", "transparent", "grass", "terrain", "store", "done"}

\* C16: a call of bake_meshes holds read access to the registry from before its
\* snapshot until after it has published; no writer modifies the registry
\* between the start of a call and its store, and every chunk baked in one
\* call is classified with the same grass and glass keys, those of the
\* registry the call started with.
C16_RegistryHeldForPass ==
  [][\A p \in Passes :
       /\ pc[p] \in PassPositions => HoldsRegistryGuard(p)
       /\ Active(p) => registry' = registry
       /\ \A c \in DOMAIN chunk :
            (Active(p) /\ BakeCell(passId[p], c) \in DOMAIN bundles) =>
              /\ BakeLookupsOk(registry)
              /\ LET built == Unwrap(bundles[BakeCell(passId[p], c)])
                 IN /\ \A i \in DOMAIN built.grass.verts :
                         built.grass.verts[i].state.packed_key = MapGet(registry, GrassName)
                    /\ \A i \in DOMAIN built.glass.verts :
                         built.glass.verts[i].state.packed_key = MapGet(registry, GlassName)]_vars

\* C16 witness: the registry is populated and a call has baked two chunks,
\* each with a grass and a glass vertex, published its generation and not yet
\* returned.
C16_Witness ==
  \E p \in Passes :
    /\ Stored(p) /\ section_buffers = passId[p]
    /\ Len(chunks[p]) = 2
    /\ \A i \in 1..2 :
         /\ BakeCell(passId[p], chunks[p][i]) \in DOMAIN bundles
         /\ Unwrap(bundles[BakeCell(passId[p], chunks[p][i])]).grass.verts # <<>>
         /\ Unwrap(bundles[BakeCell(passId[p], chunks[p][i])]).glass.verts # <<>>
    /\ BakeLookupsOk(registry)

\* C17: a call of bake_meshes holds the loaded_chunks lock only while it
\* collects its snapshot and has released it before any Chunk::bake starts;
\* from then until the call publishes, chunk load and unload and the reads of
\* section_buffers are never blocked by the call.
C17_ChunksLockOnlyForSnapshot ==
  /\ \A p \in Passes : p \in chunks_guard => pc[p] = "collect"
  /\ (\A p \in Passes : pc[p] # "collect") =>
       /\ \A pos \in DOMAIN loaded_chunks : ENABLED UnloadChunk(pos)
       /\ nextChunk <= MaxChunks =>
            \A pos \in Positions : \A blocks \in BlockArrays : ENABLED LoadChunk(pos, blocks)
  /\ HeldTotal < MaxReaderRefs => ENABLED ReaderLoad

\* C17 witness: a call is in its merge loop, holds no guard, and since it took
\* its snapshot one chunk was loaded and a snapshot chunk was unloaded.
C17_Witness ==
  \E p \in Passes :
    /\ pc[p] = "merge" /\ mergeIdx[p] > 1
    /\ late[p] # {} /\ gone[p] # {}
    /\ chunks_guard = {}

\* the bake_meshes call of thread p ends in this step
Ends(p) == Active(p) /\ pc'[p] = "idle"

\* C18, as stated: with the registry populated, every started call of
\* bake_meshes runs to completion and publishes exactly one generation: a call
\* only ends by returning after its store.
C18_EveryPassPublishes ==
  [][\A p \in Passes :
       (BakeLookupsOk(registry) /\ Ends(p)) =>
         (pc[p] = "done" /\ passId[p] \in DOMAIN heap)]_vars

\* C18, amended: with the registry populated and under fair scheduling, every
\* started call of bake_meshes ends, whatever loads, unloads and other calls
\* are interleaved with it; it stores at most once, and it ends either by
\* returning after it has published its one generation or because one of its
\* uploads failed; an unload of a snapshot chunk neither fails nor stalls it.
C18_PassCompletesUnlessUploadFails ==
  /\ [][\A p \in Passes :
          /\ (BakeLookupsOk(registry) /\ Ends(p)) =>
                \/ pc[p] = "done" /\ passId[p] \in DOMAIN heap
                \/ pc[p] \in {"transparent", "grass", "terrain"}
                   /\ passId[p] \notin DOMAIN heap
          /\ (pc[p] = "store" /\ pc'[p] # "store") =>
                (passId[p] \notin DOMAIN heap /\ passId[p] \in DOMAIN heap')]_vars
  /\ \A p \in Passes : Active(p) ~> ~Active(p)

\* C18 witness: a call that overlapped another call has published its
\* generation although a chunk of its snapshot was unloaded and another chunk
\* was loaded while it ran.
C18_Witness ==
  \E p \in Passes :
    /\ Stored(p) /\ section_buffers = passId[p]
    /\ ~alone[p]
    /\ gone[p] # {} /\ late[p] # {}
    /\ \E c \in gone[p] : c \in ChunksInMap(heap[passId[p]])

\* C19, as stated: when two calls overlap and share a chunk, the bundle each
\* call reads from the chunk's baked slot in its merge loop is the bundle that
\* same call stored for the chunk; a call never merges a bundle written by
\* another call.
C19_MergeReadsOwnBundle ==
  \A p \in Passes :
    \A i \in DOMAIN mergedFrom[p] :
      mergedFrom[p][i] = BakeCell(passId[p], chunks[p][i])

\* C19, amended: the bundle a call reads from a snapshot chunk's baked slot in
\* its merge loop is the one stored by the latest Chunk::bake on that chunk:
\* its own, or that of a call that overlapped it.  It is never None, and its
\* grass, glass and terrain layers have the same content as the bundle the
\* reading call stored itself; a call that overlapped no other call reads its
\* own bundles.
C19_MergeReadsEquivalentBundle ==
  \A p \in Passes :
    \A i \in DOMAIN mergedFrom[p] :
      LET c == chunks[p][i]
          read == mergedFrom[p][i]
          own == BakeCell(passId[p], c)
      IN /\ read \in {BakeCell(n, c) : n \in 1..MaxPassCalls}
         /\ read # own => ~alone[p]
         /\ bundles[read] # None
         /\ own \in DOMAIN bundles
         /\ \A l \in {"grass", "glass", "terrain"} :
              Unwrap(bundles[read])[l].verts = Unwrap(bundles[own])[l].verts

\* C19 witness: a call in its merge loop has merged, for a chunk with terrain,
\* a bundle that another call stored.
C19_Witness ==
  \E p \in Passes :
    /\ pc[p] = "merge"
    /\ Len(terrain[p]) > 0
    /\ \E i \in DOMAIN mergedFrom[p] :
         mergedFrom[p][i] # BakeCell(passId[p], chunks[p][i])

\* C20: the published generation never regresses: if a call took its snapshot
\* after another call did, then once both have stored their generation the
\* published mapping is not that of the call with the older snapshot.
C20_PublishedNeverRegresses ==
  \A i, j \in DOMAIN snapshots :
    (i < j /\ snapshots[i] \in DOMAIN heap /\ snapshots[j] \in DOMAIN heap) =>
      section_buffers # snapshots[i]

====
